---- MODULE Spec2Model ----
(***************************************************************************)
(* MusicManager (game/audio_manager.py): the zone -> track map built from  *)
(* maps.json, the base and idle mixer channels, and the idle / active      *)
(* volume state machine.                                                   *)
(*                                                                         *)
(* Strings are sequences of one-character strings, so that lower(),        *)
(* strip(), endswith() and replace() are computed.  Python floats are      *)
(* IEEE-754 doubles and are computed bit for bit.                          *)
(***************************************************************************)
EXTENDS Integers, Sequences, FiniteSets, TLC

\* ------------------------------------------------------------------ strings
None == <<>>

UpperChars == <<"A", "B", "C", "D", "E", "F", "G", "H", "I", "J", "K", "L", "M",
                "N", "O", "P", "Q", "R", "S", "T", "U", "V", "W", "X", "Y", "Z">>
LowerChars == <<"a", "b", "c", "d", "e", "f", "g", "h", "i", "j", "k", "l", "m",
                "n", "o", "p", "q", "r", "s", "t", "u", "v", "w", "x", "y", "z">>

LowerChar(c) ==
    IF \E i \in 1..Len(UpperChars) : UpperChars[i] = c
    THEN LowerChars[CHOOSE i \in 1..Len(UpperChars) : UpperChars[i] = c]
    ELSE c

\* str.lower()
Lower(s) == SubSeq([i \in 1..Len(s) |-> LowerChar(s[i])], 1, Len(s))

\* str.replace(a, b) for single characters a, b
Replace(s, a, b) == SubSeq([i \in 1..Len(s) |-> IF s[i] = a THEN b ELSE s[i]], 1, Len(s))

\* str.endswith(suffix)
EndsWith(s, suffix) ==
    /\ Len(s) >= Len(suffix)
    /\ SubSeq(s, Len(s) - Len(suffix) + 1, Len(s)) = suffix

RECURSIVE LStrip(_)
LStrip(s) == IF s # <<>> /\ Head(s) = " " THEN LStrip(Tail(s)) ELSE s

RECURSIVE RStrip(_)
RStrip(s) == IF s # <<>> /\ s[Len(s)] = " " THEN RStrip(SubSeq(s, 1, Len(s) - 1)) ELSE s

\* str.strip()
Strip(s) == RStrip(LStrip(s))

Mp3Ext == <<".", "m", "p", "3">>

\* "if track_name.endswith('.mp3'): track_name = track_name[:-4]"
StripMp3_KeepsExt(track_name) == track_name

StripMp3(track_name) ==
    IF EndsWith(track_name, Mp3Ext)
    THEN SubSeq(track_name, 1, Len(track_name) - 4)
    ELSE track_name

DefaultZone == <<"c", "o", "r", "o", "T", "o", "w", "n">>
DefaultTrack == <<"C", "o", "r", "o", "T", "o", "w", "n">>
IdleDaniel == <<"i", "d", "l", "e", "D", "a", "n", "i", "e", "l">>
IdleTrack2 == <<"i", "d", "l", "e", "_", "t", "r", "a", "c", "k", "_", "2">>

\* ----------------------------------------------------------------- binary64
\* A float is [neg, m, e] with value (-1)^neg * m * 2^e; the 53-bit
\* significand m is a little-endian sequence of base-2^15 limbs (TLC's
\* integers are 32 bits wide), without leading zero limbs; zero has m = <<>>.
MantBits == 53
LimbBits == 15
Base == 2^LimbBits

Max(a, b) == IF a >= b THEN a ELSE b
Min(a, b) == IF a <= b THEN a ELSE b

Zeros(k) == [i \in 1..k |-> 0]
LimbAt(a, i) == IF i >= 1 /\ i <= Len(a) THEN a[i] ELSE 0

RECURSIVE Trim(_)
Trim(a) == IF a = <<>> THEN a
           ELSE IF a[Len(a)] # 0 THEN a
           ELSE Trim(SubSeq(a, 1, Len(a) - 1))

RECURSIVE NatLimbs(_)
NatLimbs(n) == IF n = 0 THEN <<>> ELSE <<n % Base>> \o NatLimbs(n \div Base)

SmallBitLen(n) ==
    IF n = 0 THEN 0 ELSE CHOOSE k \in 1..LimbBits : 2^(k - 1) <= n /\ n < 2^k

BitLen(a) ==
    LET t == Trim(a)
    IN  IF t = <<>> THEN 0 ELSE LimbBits * (Len(t) - 1) + SmallBitLen(t[Len(t)])

RECURSIVE AddFrom(_, _, _, _)
AddFrom(a, b, i, carry) ==
    IF i > Max(Len(a), Len(b))
    THEN IF carry = 0 THEN <<>> ELSE <<carry>>
    ELSE LET s == LimbAt(a, i) + LimbAt(b, i) + carry
         IN  <<s % Base>> \o AddFrom(a, b, i + 1, s \div Base)

LimbsAdd(a, b) == AddFrom(a, b, 1, 0)

RECURSIVE SubFrom(_, _, _, _)
SubFrom(a, b, i, borrow) ==
    IF i > Len(a) THEN <<>>
    ELSE LET d == LimbAt(a, i) - LimbAt(b, i) - borrow
         IN  <<d % Base>> \o SubFrom(a, b, i + 1, IF d < 0 THEN 1 ELSE 0)

\* a - b for a >= b
LimbsSub(a, b) == Trim(SubFrom(a, b, 1, 0))

RECURSIVE CmpFrom(_, _, _)
CmpFrom(a, b, i) ==
    IF i = 0 THEN 0
    ELSE IF LimbAt(a, i) > LimbAt(b, i) THEN 1
    ELSE IF LimbAt(a, i) < LimbAt(b, i) THEN -1
    ELSE CmpFrom(a, b, i - 1)

LimbsCmp(a, b) == CmpFrom(a, b, Max(Len(a), Len(b)))

RECURSIVE MulFrom(_, _, _, _)
MulFrom(a, k, i, carry) ==
    IF i > Len(a)
    THEN IF carry = 0 THEN <<>> ELSE <<carry>>
    ELSE LET p == a[i] * k + carry
         IN  <<p % Base>> \o MulFrom(a, k, i + 1, p \div Base)

\* a * k for 0 < k <= Base
LimbsMulSmall(a, k) == MulFrom(a, k, 1, 0)

RECURSIVE DivFrom(_, _, _, _)
DivFrom(a, k, i, rem) ==
    IF i = 0 THEN [q |-> <<>>, inexact |-> rem # 0]
    ELSE LET r    == rem * Base + a[i]
             rest == DivFrom(a, k, i - 1, r % k)
         IN  [q |-> Append(rest.q, r \div k), inexact |-> rest.inexact]

\* the quotient of a by k (0 < k <= Base), and whether a remainder is left
LimbsDivSmall(a, k) ==
    LET d == DivFrom(a, k, Len(a), 0) IN [q |-> Trim(d.q), inexact |-> d.inexact]

ShiftLeft(a, s) == Zeros(s \div LimbBits) \o LimbsMulSmall(a, 2^(s % LimbBits))

ShiftRight(a, s) ==
    LET w == Min(s \div LimbBits, Len(a))
        d == LimbsDivSmall(SubSeq(a, w + 1, Len(a)), 2^(s % LimbBits))
    IN  [q |-> d.q, inexact |-> d.inexact \/ \E i \in 1..w : a[i] # 0]

IsOdd(a) == LimbAt(a, 1) % 2 = 1

FZero == [neg |-> FALSE, m |-> <<>>, e |-> 0]

\* m * 2^e (plus a fraction of its last place when sticky) rounded to the
\* nearest double, ties to even
RoundToDouble(neg, m, e, sticky) ==
    LET L == BitLen(m)
    IN  IF L = 0 THEN FZero
        ELSE IF L <= MantBits
        THEN [neg |-> neg, m |-> Trim(ShiftLeft(m, MantBits - L)), e |-> e - (MantBits - L)]
        ELSE LET d  == L - MantBits
                 t  == ShiftRight(m, d - 1)
                 q  == LimbsDivSmall(t.q, 2).q
                 up == IsOdd(t.q) /\ (sticky \/ t.inexact \/ IsOdd(q))
                 r  == IF up THEN LimbsAdd(q, <<1>>) ELSE q
             IN  IF BitLen(r) > MantBits
                 THEN [neg |-> neg, m |-> LimbsDivSmall(r, 2).q, e |-> e + d + 1]
                 ELSE [neg |-> neg, m |-> r, e |-> e + d]

\* float(n) for an int n
FromInt(n) == RoundToDouble(n < 0, NatLimbs(IF n < 0 THEN -n ELSE n), 0, FALSE)

FNeg(x) == IF x.m = <<>> THEN x ELSE [x EXCEPT !.neg = ~x.neg]

\* x + y
FAdd(x, y) ==
    IF x.m = <<>> THEN y
    ELSE IF y.m = <<>> THEN x
    ELSE LET e  == Min(x.e, y.e)
             mx == ShiftLeft(x.m, x.e - e)
             my == ShiftLeft(y.m, y.e - e)
             c  == LimbsCmp(mx, my)
         IN  IF x.neg = y.neg THEN RoundToDouble(x.neg, LimbsAdd(mx, my), e, FALSE)
             ELSE IF c = 0 THEN FZero
             ELSE IF c > 0 THEN RoundToDouble(x.neg, LimbsSub(mx, my), e, FALSE)
             ELSE RoundToDouble(y.neg, LimbsSub(my, mx), e, FALSE)

\* x - y
FSub(x, y) == FAdd(x, FNeg(y))

GuardBits == 8

\* x / n for an int 0 < n < 2^GuardBits (converted exactly)
FDivInt(x, n) ==
    IF x.m = <<>> THEN FZero
    ELSE LET d == LimbsDivSmall(ShiftLeft(x.m, GuardBits), n)
         IN  RoundToDouble(x.neg, d.q, x.e - GuardBits, d.inexact)

\* -1, 0, 1 as x < y, x = y, x > y
FCmp(x, y) ==
    IF x.m = <<>> /\ y.m = <<>> THEN 0
    ELSE IF x.m = <<>> THEN (IF y.neg THEN 1 ELSE -1)
    ELSE IF y.m = <<>> THEN (IF x.neg THEN -1 ELSE 1)
    ELSE IF x.neg # y.neg THEN (IF x.neg THEN -1 ELSE 1)
    ELSE LET e == Min(x.e, y.e)
             c == LimbsCmp(ShiftLeft(x.m, x.e - e), ShiftLeft(y.m, y.e - e))
         IN  IF x.neg THEN -c ELSE c

\* max(x, y), min(x, y): Python returns the first argument unless the other
\* one is strictly greater (smaller)
FMax(x, y) == IF FCmp(y, x) > 0 THEN y ELSE x
FMin(x, y) == IF FCmp(y, x) < 0 THEN y ELSE x

\* the literals 0.0, 1.0, 0.6 and 0.2: a decimal literal is the double nearest
\* to it, which is what the correctly rounded quotient n / 10 is
F0 == FZero
F1 == FromInt(1)
normal_volume == FDivInt(FromInt(6), 10)
muffled_volume == FDivInt(FromInt(2), 10)

\* ------------------------------------------------------------------ inputs
\* zone keys and "music" values that maps.json may hold
ZoneCave == <<"C", "a", "v", "e">>
ZoneLab == <<"L", "a", "b", ".", "M", "P", "3">>
MusicCave == <<" ", "c", "a", "v", "e", ".", "m", "p", "3", " ">>
MusicTheme == <<"T", "h", "e", "m", "e", ".", "m", "p", "3", ".", "m", "p", "3">>
MusicBlank == <<" ", " ">>
MusicPlain == <<"C", "o", "r", "o", "T", "o", "w", "n">>

\* files that the music directory may hold
FileCoroTown == <<"C", "o", "r", "o", "T", "o", "w", "n", ".", "m", "p", "3">>
FileCave == <<"C", "A", "V", "E", ".", "m", "p", "3">>
FileLab == <<"l", "a", "b", ".", "m", "p", "3">>
FileIdleDaniel == <<"i", "d", "l", "e", "D", "a", "n", "i", "e", "l", ".", "m", "p", "3">>
FileIdleTrack2 == <<"i", "d", "l", "e", " ", "t", "r", "a", "c", "k", " ", "2", ".", "m", "p", "3">>
FileIdleTrack2Upper == <<"I", "d", "l", "e", " ", "T", "r", "a", "c", "k", " ", "2", ".", "m", "p", "3">>

\* the zone names the game passes to set_zone_music
ZoneInputs == {DefaultZone, ZoneCave, ZoneLab}

\* the options the game passes to trigger_idle_audio
IdleOptions == {1, 2, 3}

\* the value of one zone in maps.json: a JSON object whose "music" key is
\* absent, a string, or another JSON value; or a JSON value that is no object
NotAnObject == [kind |-> "other", music |-> "absent", s |-> <<>>]
NoMusicKey == [kind |-> "dict", music |-> "absent", s |-> <<>>]
MusicNotString == [kind |-> "dict", music |-> "other", s |-> <<>>]
MusicIs(s) == [kind |-> "dict", music |-> "string", s |-> s]

MusicValues == {MusicCave, MusicTheme, MusicBlank, MusicPlain, Mp3Ext}
ZoneData == {NotAnObject, NoMusicKey, MusicNotString} \cup {MusicIs(s) : s \in MusicValues}
ZoneKeys == {DefaultZone, ZoneCave, ZoneLab}

MaxZones == 2

\* the (key, value) pairs of a JSON object, in file order, keys distinct
ZoneItems ==
    UNION {{z \in [1..n -> [zone : ZoneKeys, data : ZoneData]] :
              \A i, j \in 1..n : i # j => z[i].zone # z[j].zone} : n \in 0..MaxZones}

\* maps.json: absent, not JSON, a JSON value that is no object, or an object
MissingFile == [exists |-> FALSE, parses |-> FALSE, object |-> FALSE, items |-> <<>>]
CorruptFile == [exists |-> TRUE, parses |-> FALSE, object |-> FALSE, items |-> <<>>]
NotObjectFile == [exists |-> TRUE, parses |-> TRUE, object |-> FALSE, items |-> <<>>]
ObjectFile(items) == [exists |-> TRUE, parses |-> TRUE, object |-> TRUE, items |-> items]

AllConfigs == {MissingFile, CorruptFile, NotObjectFile} \cup {ObjectFile(z) : z \in ZoneItems}

\* the configurations the controller is exercised with
PlayConfigs ==
    { MissingFile,
      ObjectFile(<<[zone |-> ZoneCave, data |-> MusicIs(MusicCave)],
                   [zone |-> DefaultZone, data |-> MusicIs(MusicPlain)]>>) }

\* the music directory: the files in it, and those pygame cannot decode
Folders ==
    { [files |-> {}, unreadable |-> {}],
      [files |-> {FileCoroTown, FileIdleDaniel}, unreadable |-> {}],
      [files |-> {FileCoroTown, FileCave, FileLab, FileIdleDaniel,
                  FileIdleTrack2, FileIdleTrack2Upper},
       unreadable |-> {}],
      [files |-> {FileCoroTown, FileCave, FileLab, FileIdleDaniel},
       unreadable |-> {FileLab, FileIdleDaniel}] }

\* --------------------------------------------------------------- zone map
EmptyMap == <<>>
MapSet(map, key, value) ==
    [k \in DOMAIN map \cup {key} |-> IF k = key THEN value ELSE map[k]]

Fallback == MapSet(EmptyMap, DefaultZone, DefaultTrack)

\* the for loop over maps_data.items(): the map built, and whether an
\* exception ended the loop
RECURSIVE ZoneLoop(_, _, _)
ZoneLoop(items, i, zone_music) ==
    IF i > Len(items) THEN [zone_music |-> zone_music, exc |-> FALSE]
    ELSE LET zone == items[i].zone
             data == items[i].data
         IN  IF data.kind # "dict" \/ data.music = "other"
             THEN [zone_music |-> zone_music, exc |-> TRUE]
             ELSE LET track_name == Strip(IF data.music = "absent" THEN <<>> ELSE data.s)
                  IN  IF track_name # <<>>
                      THEN ZoneLoop(items, i + 1, MapSet(zone_music, zone, StripMp3(track_name)))
                      ELSE ZoneLoop(items, i + 1, zone_music)

\* the try block: open, json.load, the loop
TryLoadZones(cfg) ==
    IF ~cfg.parses \/ ~cfg.object THEN [zone_music |-> EmptyMap, exc |-> TRUE]
    ELSE ZoneLoop(cfg.items, 1, EmptyMap)

create_zone_music_map_NoFallback(cfg) ==
    LET tried == IF cfg.exists THEN TryLoadZones(cfg)
                 ELSE [zone_music |-> EmptyMap, exc |-> FALSE]
    IN  [value |-> tried.zone_music, raised |-> FALSE]

\* "except Exception" swallows whatever the try block raises
create_zone_music_map(cfg) ==
    LET tried == IF cfg.exists THEN TryLoadZones(cfg)
                 ELSE [zone_music |-> EmptyMap, exc |-> FALSE]
        zone_music == tried.zone_music
    IN  [value  |-> IF zone_music = EmptyMap THEN Fallback ELSE zone_music,
         raised |-> FALSE]

\* load_maps_data: the parsed JSON, {} when absent or not JSON
load_maps_data(cfg) == IF cfg.exists /\ cfg.parses THEN cfg.items ELSE <<>>

\* track_name in set_zone_music: the map's entry or the lower-cased zone
\* name, without a trailing ".mp3"
ResolveTrack_NoLower(map, zone) ==
    StripMp3(IF zone \in DOMAIN map THEN map[zone] ELSE zone)
ResolveTrack(map, zone) ==
    StripMp3(IF zone \in DOMAIN map THEN map[zone] ELSE Lower(zone))

\* ------------------------------------------------------------------- state
VARIABLES
    maps_json,        \* the file at maps_json_path
    folder,           \* the music directory music_dir
    zone_music_map,   \* self.zone_music_map
    maps_data,        \* self.maps_data
    base,             \* self.base (before __init__: the starting_track argument)
    main_sound,       \* self.main_sound: the file of the loaded Sound, or None
    idle_sound,       \* self.idle_sound
    music_channel,    \* mixer channel 0: the Sound it plays (None when not busy), its volume
    idle_channel,     \* mixer channel 1
    current_volume,   \* self.current_volume
    is_idle_version,  \* self.is_idle_version
    op,               \* the last call made on the controller ("none" before __init__)
    zone_name,        \* the zone_name argument of the last call, when it was set_zone_music
    track_name,       \* the track name that call resolved
    idle_option,      \* the idle_option argument of the last call, when it was trigger_idle_audio
    returned,         \* the value the last call returned, when it was choose_idle_option
    after_muffle,     \* the call before the last call was trigger_idle_audio(1)
    music_cmds,       \* what the last call asked of channel 0, in order
    idle_cmds,        \* what the last call asked of channel 1, in order
    raised,           \* the last call raised to its caller
    fade              \* the locals of the fade_to call that is running, if any

vars == <<maps_json, folder, zone_music_map, maps_data, base, main_sound, idle_sound,
          music_channel, idle_channel, current_volume, is_idle_version, op, zone_name,
          track_name, idle_option, returned, after_muffle, music_cmds, idle_cmds, raised,
          fade>>

\* the object's fields and channels, threaded through the methods
Self ==
    [base |-> base, main_sound |-> main_sound, idle_sound |-> idle_sound,
     music_channel |-> music_channel, idle_channel |-> idle_channel,
     current_volume |-> current_volume, is_idle_version |-> is_idle_version,
     music_cmds |-> <<>>, idle_cmds |-> <<>>]

Becomes(s) ==
    /\ base' = s.base
    /\ main_sound' = s.main_sound
    /\ idle_sound' = s.idle_sound
    /\ music_channel' = s.music_channel
    /\ idle_channel' = s.idle_channel
    /\ current_volume' = s.current_volume
    /\ is_idle_version' = s.is_idle_version
    /\ music_cmds' = s.music_cmds
    /\ idle_cmds' = s.idle_cmds

\* ------------------------------------------------------------- file lookup
path_exists(p) == p \in folder.files

CaseInsensitiveMatches(name) ==
    {file \in folder.files : Lower(file) = Lower(name \o Mp3Ext)}

\* the paths the search may return (os.listdir fixes no order): the first
\* case-insensitive match of the name, of the name with "_" as " ", of the
\* name with " " as "_"; None without a match
find_music_file_case_insensitive(name) ==
    LET exact       == CaseInsensitiveMatches(name)
        spaces      == CaseInsensitiveMatches(Replace(name, "_", " "))
        underscores == CaseInsensitiveMatches(Replace(name, " ", "_"))
    IN  IF exact # {} THEN exact
        ELSE IF spaces # {} THEN spaces
        ELSE IF underscores # {} THEN underscores
        ELSE {None}

get_full_path(name) ==
    LET exact_path == name \o Mp3Ext
    IN  IF path_exists(exact_path) THEN {exact_path}
        ELSE {IF alt_path # None THEN alt_path ELSE exact_path :
                 alt_path \in find_music_file_case_insensitive(name)}

\* pygame.mixer.Sound(path) raises on a file it cannot decode
SoundRaises(p) == p \in folder.unreadable

\* ---------------------------------------------------------------- methods
SetSound(s, p) == [s EXCEPT !.main_sound = p]

\* the Sound of path p is assigned to main_sound; the exception of a file
\* that cannot be decoded is caught and leaves main_sound as it was
LoadSound(s, p) == IF SoundRaises(p) THEN s ELSE SetSound(s, p)

\* the states load_base_track may leave: main_sound is assigned only when a
\* file is found
load_base_track(s) ==
    UNION {IF path_exists(track_path) THEN {LoadSound(s, track_path)}
           ELSE {IF alt_path # None THEN LoadSound(s, alt_path) ELSE s :
                    alt_path \in find_music_file_case_insensitive(s.base)} :
           track_path \in get_full_path(s.base)}

play_base_track(s) ==
    IF s.main_sound # None
    THEN [s EXCEPT !.music_channel = [sound |-> s.main_sound, volume |-> s.current_volume],
                   !.music_cmds = @ \o <<"play", "set_volume">>]
    ELSE s

stop_base_track(s) ==
    [s EXCEPT !.music_channel.sound = None, !.music_cmds = Append(@, "stop")]

Steps == 10

\* the values current_volume takes in the n rounds of the loop of fade_to
\* (each round's value is computed once, as the member of a singleton)
RECURSIVE FadeSteps(_, _, _)
FadeSteps(volume, volume_step, n) ==
    IF n = 0 THEN <<>>
    ELSE CHOOSE ramp \in {<<v>> \o FadeSteps(v, volume_step, n - 1) :
                            v \in {FMax(F0, FMin(F1, FAdd(volume, volume_step)))}} : TRUE

fade_to_OneStepShort(s, target_volume) ==
    LET volume_step == FDivInt(FSub(target_volume, s.current_volume), Steps)
    IN  CHOOSE faded \in
            {[s EXCEPT !.current_volume = ramp[Steps - 1],
                       !.music_channel.volume = ramp[Steps - 1],
                       !.music_cmds = @ \o [i \in 1..(Steps - 1) |-> "set_volume"]] :
                ramp \in {FadeSteps(s.current_volume, volume_step, Steps - 1)}} : TRUE

fade_to(s, target_volume) ==
    LET volume_step == FDivInt(FSub(target_volume, s.current_volume), Steps)
    IN  CHOOSE faded \in
            {[s EXCEPT !.current_volume = ramp[Steps],
                       !.music_channel.volume = ramp[Steps],
                       !.music_cmds = @ \o [i \in 1..Steps |-> "set_volume"]] :
                ramp \in {FadeSteps(s.current_volume, volume_step, Steps)}} : TRUE

PlayIdleSound_AtCurrentVolume(s, p) ==
    IF SoundRaises(p) THEN s
    ELSE [s EXCEPT !.idle_sound = p,
                   !.idle_channel = [sound |-> p, volume |-> s.current_volume],
                   !.idle_cmds = @ \o <<"play", "set_volume">>]

\* Sound(p) is played on channel 1 at muffled volume; an exception is caught
PlayIdleSound(s, p) ==
    IF SoundRaises(p) THEN s
    ELSE [s EXCEPT !.idle_sound = p,
                   !.idle_channel = [sound |-> p, volume |-> muffled_volume],
                   !.idle_cmds = @ \o <<"play", "set_volume">>]

play_idle_track_NoStop(s, name) ==
    UNION {IF path_exists(full_path) THEN {PlayIdleSound(s, full_path)}
           ELSE {IF alt_path # None THEN PlayIdleSound(s, alt_path) ELSE s :
                    alt_path \in find_music_file_case_insensitive(name)} :
           full_path \in get_full_path(name)}

play_idle_track(s, name) ==
    LET stopped == [s EXCEPT !.idle_channel.sound = None, !.idle_cmds = Append(@, "stop")]
    IN  UNION {IF path_exists(full_path) THEN {PlayIdleSound(stopped, full_path)}
               ELSE {IF alt_path # None THEN PlayIdleSound(stopped, alt_path) ELSE stopped :
                        alt_path \in find_music_file_case_insensitive(name)} :
               full_path \in get_full_path(name)}

set_zone_music_Always(s, map, zone) ==
    LET track == ResolveTrack(map, zone)
    IN  {IF loaded.main_sound # None
         THEN [play_base_track(loaded) EXCEPT !.is_idle_version = FALSE,
                                              !.current_volume = normal_volume]
         ELSE loaded :
            loaded \in load_base_track(stop_base_track([s EXCEPT !.base = track]))}

set_zone_music_KeepsVolume(s, map, zone) ==
    LET track == ResolveTrack(map, zone)
    IN  IF track # s.base
        THEN {IF loaded.main_sound # None
              THEN [play_base_track(loaded) EXCEPT !.is_idle_version = FALSE]
              ELSE loaded :
                 loaded \in load_base_track(stop_base_track([s EXCEPT !.base = track]))}
        ELSE {s}

set_zone_music(s, map, zone) ==
    LET track == ResolveTrack(map, zone)
    IN  IF track # s.base
        THEN {IF loaded.main_sound # None
              THEN [play_base_track(loaded) EXCEPT !.is_idle_version = FALSE,
                                                   !.current_volume = normal_volume]
              ELSE loaded :
                 loaded \in load_base_track(stop_base_track([s EXCEPT !.base = track]))}
        ELSE {s}

trigger_idle_audio(s, option) ==
    LET done == IF option = 1 THEN {fade_to(s, muffled_volume)}
                ELSE IF option = 2 THEN play_idle_track(s, IdleDaniel)
                ELSE IF option = 3 THEN play_idle_track(s, IdleTrack2)
                ELSE {s}
    IN  {[d EXCEPT !.is_idle_version = TRUE] : d \in done}

reset_to_base_audio_Unguarded(s) ==
    LET idle_off == IF s.idle_channel.sound # None
                    THEN [s EXCEPT !.idle_channel.sound = None,
                                   !.idle_cmds = Append(@, "stop")]
                    ELSE s
        playing  == IF idle_off.music_channel.sound = None /\ idle_off.main_sound # None
                    THEN play_base_track(idle_off)
                    ELSE idle_off
    IN  [fade_to(playing, normal_volume) EXCEPT !.current_volume = normal_volume,
                                                !.is_idle_version = FALSE]

reset_to_base_audio_KeepsIdleTrack(s) ==
    IF s.is_idle_version
    THEN LET playing == IF s.music_channel.sound = None /\ s.main_sound # None
                        THEN play_base_track(s)
                        ELSE s
         IN  [fade_to(playing, normal_volume) EXCEPT !.current_volume = normal_volume,
                                                     !.is_idle_version = FALSE]
    ELSE s

reset_to_base_audio_NoRestore(s) ==
    IF s.is_idle_version
    THEN [fade_to_OneStepShort(s, normal_volume) EXCEPT !.is_idle_version = FALSE]
    ELSE s

reset_to_base_audio(s) ==
    IF s.is_idle_version
    THEN LET idle_off == IF s.idle_channel.sound # None
                         THEN [s EXCEPT !.idle_channel.sound = None,
                                        !.idle_cmds = Append(@, "stop")]
                         ELSE s
             playing  == IF idle_off.music_channel.sound = None /\ idle_off.main_sound # None
                         THEN play_base_track(idle_off)
                         ELSE idle_off
         IN  [fade_to(playing, normal_volume) EXCEPT !.current_volume = normal_volume,
                                                     !.is_idle_version = FALSE]
    ELSE s

\* random.choices([1, 2, 3], weights=[5, 2, 2]): random() * total falls in
\* one of `total` unit intervals, all equally likely, and the option is the
\* first whose cumulative weight exceeds it
Options == <<1, 2, 3>>
Weights == <<5, 2, 2>>

RECURSIVE CumWeight(_)
CumWeight(i) == IF i = 0 THEN 0 ELSE CumWeight(i - 1) + Weights[i]

TotalWeight == CumWeight(Len(Weights))
Tickets == 0..(TotalWeight - 1)

choose_idle_option(ticket) ==
    Options[1 + Cardinality({i \in 1..(Len(Weights) - 1) : CumWeight(i) <= ticket})]

\* ----------------------------------------------------------------- actions
\* no fade_to call is running
NoFade ==
    [caller |-> "none", target_volume |-> FZero, volume_step |-> FZero, ramp |-> <<>>,
     round |-> 0]

NewObject ==
    /\ zone_music_map = EmptyMap
    /\ maps_data = <<>>
    /\ base = DefaultTrack
    /\ main_sound = None
    /\ idle_sound = None
    /\ music_channel = [sound |-> None, volume |-> F1]
    /\ idle_channel = [sound |-> None, volume |-> F1]
    /\ current_volume = normal_volume
    /\ is_idle_version = FALSE
    /\ op = "none"
    /\ zone_name = <<>>
    /\ track_name = <<>>
    /\ idle_option = 0
    /\ returned = 0
    /\ after_muffle = FALSE
    /\ music_cmds = <<>>
    /\ idle_cmds = <<>>
    /\ raised = FALSE
    /\ fade = NoFade

\* before MusicManager(starting_track, music_dir, maps_json_path) is called
Init ==
    /\ maps_json \in PlayConfigs
    /\ folder \in Folders
    /\ NewObject

InitLoad ==
    /\ maps_json \in AllConfigs
    /\ folder \in Folders
    /\ NewObject

\* what a call records about itself
Called(name, zone, track, option, value) ==
    /\ op' = name
    /\ zone_name' = zone
    /\ track_name' = track
    /\ idle_option' = option
    /\ returned' = value
    /\ after_muffle' = (op = "trigger_idle_audio" /\ idle_option = 1)
    /\ raised' = FALSE

\* __init__
Construct ==
    /\ op = "none"
    /\ LET made == create_zone_music_map(maps_json)
       IN  /\ zone_music_map' = made.value
           /\ raised' = made.raised
    /\ maps_data' = load_maps_data(maps_json)
    /\ \E loaded \in load_base_track(Self) :
          \E s \in {IF loaded.main_sound # None THEN play_base_track(loaded) ELSE loaded} :
             Becomes(s)
    /\ op' = "__init__"
    /\ UNCHANGED <<maps_json, folder, zone_name, track_name, idle_option, returned,
                   after_muffle, fade>>

SetZoneMusic(zone) ==
    /\ op # "none"
    /\ fade = NoFade
    /\ \E s \in set_zone_music(Self, zone_music_map, zone) : Becomes(s)
    /\ Called("set_zone_music", zone, ResolveTrack(zone_music_map, zone), 0, 0)
    /\ UNCHANGED <<maps_json, folder, zone_music_map, maps_data, fade>>

TriggerIdleAudio(option) ==
    /\ op # "none"
    /\ fade = NoFade
    /\ \E s \in trigger_idle_audio(Self, option) : Becomes(s)
    /\ Called("trigger_idle_audio", <<>>, <<>>, option, 0)
    /\ UNCHANGED <<maps_json, folder, zone_music_map, maps_data, fade>>

ResetToBaseAudio ==
    /\ op # "none"
    /\ fade = NoFade
    /\ \E s \in {reset_to_base_audio(Self)} : Becomes(s)
    /\ Called("reset_to_base_audio", <<>>, <<>>, 0, 0)
    /\ UNCHANGED <<maps_json, folder, zone_music_map, maps_data, fade>>

StopBaseTrack ==
    /\ op # "none"
    /\ fade = NoFade
    /\ \E s \in {stop_base_track(Self)} : Becomes(s)
    /\ Called("stop_base_track", <<>>, <<>>, 0, 0)
    /\ UNCHANGED <<maps_json, folder, zone_music_map, maps_data, fade>>

\* a static method: the object is not touched
ChooseIdleOption(ticket) ==
    /\ op # "none"
    /\ fade = NoFade
    /\ \E s \in {Self} : Becomes(s)
    /\ Called("choose_idle_option", <<>>, <<>>, 0, choose_idle_option(ticket))
    /\ UNCHANGED <<maps_json, folder, zone_music_map, maps_data, fade>>

Next ==
    \/ Construct
    \/ \E zone \in ZoneInputs : SetZoneMusic(zone)
    \/ \E option \in IdleOptions : TriggerIdleAudio(option)
    \/ ResetToBaseAudio
    \/ StopBaseTrack
    \/ \E ticket \in Tickets : ChooseIdleOption(ticket)

Spec == Init /\ [][Next]_vars

\* --------------------------------------------------- fade_to, round by round
\* fade_to is entered: its volume_step, and with it the values that the rounds
\* of its loop give current_volume, are fixed from here on
EnterFade(caller, target_volume) ==
    \E volume_step \in {FDivInt(FSub(target_volume, current_volume), Steps)} :
        fade' = [caller        |-> caller,
                 target_volume |-> target_volume,
                 volume_step   |-> volume_step,
                 ramp          |-> FadeSteps(current_volume, volume_step, Steps),
                 round         |-> 0]

\* trigger_idle_audio(1), up to its call of fade_to
MuffleCall ==
    /\ op # "none"
    /\ fade = NoFade
    /\ EnterFade("trigger_idle_audio", muffled_volume)
    /\ \E s \in {Self} : Becomes(s)
    /\ Called("trigger_idle_audio", <<>>, <<>>, 1, 0)
    /\ UNCHANGED <<maps_json, folder, zone_music_map, maps_data>>

\* reset_to_base_audio in the idle state, up to its call of fade_to: the idle
\* lane is stopped and the base lane restarted if it is not busy
ResetCall ==
    /\ op # "none"
    /\ fade = NoFade
    /\ is_idle_version
    /\ EnterFade("reset_to_base_audio", normal_volume)
    /\ LET idle_off == IF idle_channel.sound # None
                       THEN [Self EXCEPT !.idle_channel.sound = None,
                                         !.idle_cmds = Append(@, "stop")]
                       ELSE Self
           playing  == IF idle_off.music_channel.sound = None /\ idle_off.main_sound # None
                       THEN play_base_track(idle_off)
                       ELSE idle_off
       IN  \E s \in {playing} : Becomes(s)
    /\ Called("reset_to_base_audio", <<>>, <<>>, 0, 0)
    /\ UNCHANGED <<maps_json, folder, zone_music_map, maps_data>>

\* reset_to_base_audio in the active state does nothing
ResetIgnored ==
    /\ ~is_idle_version
    /\ ResetToBaseAudio

FadeStep_StopsShort ==
    /\ fade # NoFade
    /\ fade.round < Steps - 1
    /\ \E v \in {fade.ramp[fade.round + 1]} :
          /\ current_volume' = v
          /\ music_channel' = [music_channel EXCEPT !.volume = v]
    /\ music_cmds' = Append(music_cmds, "set_volume")
    /\ fade' = [fade EXCEPT !.round = @ + 1]
    /\ UNCHANGED <<maps_json, folder, zone_music_map, maps_data, base, main_sound,
                   idle_sound, idle_channel, is_idle_version, op, zone_name, track_name,
                   idle_option, returned, after_muffle, idle_cmds, raised>>

\* one round of the loop of fade_to: current_volume takes the round's value
\* max(0.0, min(1.0, current_volume + volume_step)), and channel 0 with it
FadeStep ==
    /\ fade # NoFade
    /\ fade.round < Steps
    /\ \E v \in {fade.ramp[fade.round + 1]} :
          /\ current_volume' = v
          /\ music_channel' = [music_channel EXCEPT !.volume = v]
    /\ music_cmds' = Append(music_cmds, "set_volume")
    /\ fade' = [fade EXCEPT !.round = @ + 1]
    /\ UNCHANGED <<maps_json, folder, zone_music_map, maps_data, base, main_sound,
                   idle_sound, idle_channel, is_idle_version, op, zone_name, track_name,
                   idle_option, returned, after_muffle, idle_cmds, raised>>

\* the loop is over: fade_to returns and its caller finishes
FadeReturn ==
    /\ fade # NoFade
    /\ fade.round = Steps
    /\ IF fade.caller = "trigger_idle_audio"
       THEN /\ is_idle_version' = TRUE
            /\ UNCHANGED current_volume
       ELSE /\ current_volume' = normal_volume
            /\ is_idle_version' = FALSE
    /\ fade' = NoFade
    /\ UNCHANGED <<maps_json, folder, zone_music_map, maps_data, base, main_sound,
                   idle_sound, music_channel, idle_channel, op, zone_name, track_name,
                   idle_option, returned, after_muffle, music_cmds, idle_cmds, raised>>

\* the controller with its fades taken round by round; the thread that called
\* fade_to goes on through the loop and returns
NextFade ==
    \/ Construct
    \/ \E zone \in ZoneInputs : SetZoneMusic(zone)
    \/ \E option \in {2, 3} : TriggerIdleAudio(option)
    \/ MuffleCall
    \/ ResetCall
    \/ ResetIgnored
    \/ StopBaseTrack
    \/ FadeStep
    \/ FadeReturn

SpecFade == Init /\ [][NextFade]_vars /\ WF_vars(FadeStep) /\ WF_vars(FadeReturn)

\* the constructor alone, over every maps.json of AllConfigs
NextLoad == Construct

SpecLoad == InitLoad /\ [][NextLoad]_vars

\* ------------------------------------------------------------------ claims
\* the fields and channels of the controller
controller == <<base, main_sound, idle_sound, music_channel, idle_channel,
                current_volume, is_idle_version>>

\* an audio file is found for the track name, by either lookup
AssetFound(name) == \E p \in get_full_path(name) : path_exists(p)

\* the last call was a set_zone_music that switched tracks (a switch always
\* stops channel 0 first)
Switched == op = "set_zone_music" /\ music_cmds # <<>>

\* C1: set_zone_music with a zone whose resolved track is the current base
\* track changes nothing: channel 0 is neither stopped nor restarted, and the
\* base track, the loaded sounds, current_volume, is_idle_version and channel
\* 1 stay as they are.
C1_SameTrackIsNoOp ==
    [][(op' = "set_zone_music" /\ track_name' = base)
         => (UNCHANGED controller /\ music_cmds' = <<>> /\ idle_cmds' = <<>>)]_vars

\* C1 happens: a call for the current track made while idle, the base track
\* playing on
C1_Witness ==
    /\ op = "set_zone_music"
    /\ track_name = base
    /\ music_cmds = <<>>
    /\ is_idle_version
    /\ music_channel.sound # None

\* C2: trigger_idle_audio(1) followed by reset_to_base_audio() leaves
\* current_volume exactly normal_volume and is_idle_version False.
C2_MuffleRoundTrip ==
    [][(op = "trigger_idle_audio" /\ idle_option = 1 /\ op' = "reset_to_base_audio")
         => (current_volume' = normal_volume /\ ~is_idle_version')]_vars

\* C2 happens: reset_to_base_audio has just faded up after a muffle
C2_Witness ==
    /\ op = "reset_to_base_audio"
    /\ after_muffle
    /\ Len(music_cmds) >= Steps
    /\ current_volume = normal_volume
    /\ ~is_idle_version

\* C3: after set_zone_music switches to a track for which no audio file is
\* found, nothing was raised and channel 0 plays nothing.
C3_SilentOnMissingTrack ==
    (Switched /\ ~AssetFound(base)) => (~raised /\ music_channel.sound = None)

\* C4: after set_zone_music switches to a different track, is_idle_version is
\* False and current_volume is normal_volume, whatever the state before and
\* whether or not a sound was loaded.
C4_SwitchResetsToActive ==
    Switched => (~is_idle_version /\ current_volume = normal_volume)

\* a channel volume at the muffled level: it differs from muffled_volume by
\* less than 2^-40, the rounding of the ten additions of a fade taken in
AtMuffledLevel(v) ==
    LET d == FSub(v, muffled_volume) IN d.m = <<>> \/ d.e + MantBits <= -40

\* C5: at most one of: channel 0 is muffled, channel 1 is playing.
C5_MuffledOrIdleTrack ==
    ~(music_channel.sound # None /\ AtMuffledLevel(music_channel.volume)
        /\ idle_channel.sound # None)

\* no zone of the file has a music field that is a non-blank string
NoZoneWithMusic(cfg) ==
    \A i \in 1..Len(cfg.items) :
        ~(cfg.items[i].data.kind = "dict" /\ cfg.items[i].data.music = "string"
            /\ Strip(cfg.items[i].data.s) # <<>>)

BadConfig(cfg) == ~cfg.exists \/ ~cfg.parses \/ NoZoneWithMusic(cfg)

\* C6: building the zone map never raises and never yields an empty map; for
\* a maps.json that is missing, not parseable or without a zone with a
\* non-empty music field, the map is exactly {coroTown: CoroTown}.
C6_FallbackMap ==
    op = "__init__" =>
        /\ ~raised
        /\ DOMAIN zone_music_map # {}
        /\ BadConfig(maps_json) =>
              /\ DOMAIN zone_music_map = {DefaultZone}
              /\ zone_music_map[DefaultZone] = DefaultTrack

\* C6 happens: a parseable maps.json with zones, none with music
C6_Witness ==
    /\ op = "__init__"
    /\ maps_json.exists /\ maps_json.parses /\ maps_json.object
    /\ Len(maps_json.items) = MaxZones
    /\ NoZoneWithMusic(maps_json)
    /\ zone_music_map = Fallback

\* the map's entry for the zone, or the lower-cased zone name
MapOrLower(map, zone) == IF zone \in DOMAIN map THEN map[zone] ELSE Lower(zone)

\* C7 as stated: set_zone_music resolves map[zone] for a zone of the map and
\* otherwise exactly the lower-cased zone name.
C7_ResolvesMapOrLower ==
    op = "set_zone_music" => track_name = MapOrLower(zone_music_map, zone_name)

\* C7 as amended: it resolves that name without its trailing ".mp3", when it
\* has one.
C7_ResolvesWithoutExtension ==
    op = "set_zone_music" =>
        LET name == MapOrLower(zone_music_map, zone_name)
        IN  IF EndsWith(name, Mp3Ext) THEN track_name \o Mp3Ext = name
            ELSE track_name = name

\* C7 happens: a zone that is not in the map and whose lower-cased name ends
\* in ".mp3"
C7_Witness ==
    /\ op = "set_zone_music"
    /\ zone_name \notin DOMAIN zone_music_map
    /\ zone_name # Lower(zone_name)
    /\ EndsWith(Lower(zone_name), Mp3Ext)
    /\ track_name \o Mp3Ext = Lower(zone_name)

\* C8: reset_to_base_audio with is_idle_version False changes nothing and
\* fades nothing, even while channel 1 is playing.
C8_ResetOnlyWhenIdle ==
    [][(op' = "reset_to_base_audio" /\ ~is_idle_version)
         => (UNCHANGED controller /\ music_cmds' = <<>> /\ idle_cmds' = <<>>)]_vars

\* C8 happens: the call was made while active with channel 1 playing (a call
\* made while idle always fades)
C8_Witness ==
    /\ op = "reset_to_base_audio"
    /\ music_cmds = <<>>
    /\ idle_channel.sound # None

\* C9: after reset_to_base_audio is called with is_idle_version True, channel
\* 1 is not playing, channel 0 is playing when a base sound is loaded, the
\* volume of channel 0 and current_volume are normal_volume, and
\* is_idle_version is False.
C9_ResetRestoresBase ==
    [][(op' = "reset_to_base_audio" /\ is_idle_version)
         => /\ idle_channel'.sound = None
            /\ main_sound' # None => music_channel'.sound # None
            /\ music_channel'.volume = normal_volume
            /\ current_volume' = normal_volume
            /\ ~is_idle_version']_vars

\* C9 happens: the call stopped the idle track, restarted the stopped base
\* track and faded it
C9_Witness ==
    /\ op = "reset_to_base_audio"
    /\ idle_cmds = <<"stop">>
    /\ Len(music_cmds) = 2 + Steps /\ music_cmds[1] = "play"
    /\ music_channel.sound # None
    /\ music_channel.volume = normal_volume

\* the number of equally likely draws on which choose_idle_option returns
\* the option
Chances(option) == Cardinality({ticket \in Tickets : choose_idle_option(ticket) = option})

\* C10: choose_idle_option returns 1 on half of the draws and 2 and 3 on a
\* quarter each, and leaves the controller as it is.
C10_HalfQuarterQuarter ==
    op = "choose_idle_option" =>
        /\ returned \in {1, 2, 3}
        /\ 4 * Chances(returned) = (IF returned = 1 THEN 2 ELSE 1) * TotalWeight

\* the loop of create_zone_music_map gets to entry i: no entry before it has
\* a value that is no object or a music field that is no string
Reaches(cfg, i) ==
    \A j \in 1..(i - 1) :
        cfg.items[j].data.kind = "dict" /\ cfg.items[j].data.music # "other"

\* the entry has a music field that is a non-blank string
HasMusicName(entry) ==
    entry.data.kind = "dict" /\ entry.data.music = "string" /\ Strip(entry.data.s) # <<>>

\* the map holds, for the entry's zone, the entry's music name without
\* surrounding blanks and without one trailing ".mp3"
StoredClean(map, entry) ==
    /\ entry.zone \in DOMAIN map
    /\ IF EndsWith(Strip(entry.data.s), Mp3Ext)
       THEN map[entry.zone] \o Mp3Ext = Strip(entry.data.s)
       ELSE map[entry.zone] = Strip(entry.data.s)

\* C11 as stated: for every zone entry of maps.json with a music name, the map
\* stores the name without its ".mp3" extension, and a name without the
\* extension unchanged apart from surrounding whitespace.
C11_EveryEntryStoredClean ==
    (op = "__init__" /\ maps_json.exists) =>
        \A i \in 1..Len(maps_json.items) :
            HasMusicName(maps_json.items[i]) => StoredClean(zone_music_map, maps_json.items[i])

\* C11 as amended: so it is for every such entry that the loop gets to.
C11_ReachedEntryStoredClean ==
    (op = "__init__" /\ maps_json.exists) =>
        \A i \in 1..Len(maps_json.items) :
            (HasMusicName(maps_json.items[i]) /\ Reaches(maps_json, i))
                => StoredClean(zone_music_map, maps_json.items[i])

\* C11 happens: " cave.mp3 " was stored as "cave", next to a name without the
\* extension
C11_Witness ==
    /\ op = "__init__"
    /\ Len(maps_json.items) = MaxZones
    /\ \E i \in 1..Len(maps_json.items) :
          /\ maps_json.items[i].data = MusicIs(MusicCave)
          /\ maps_json.items[i].zone \in DOMAIN zone_music_map
          /\ zone_music_map[maps_json.items[i].zone] = <<"c", "a", "v", "e">>
    /\ \E i \in 1..Len(maps_json.items) :
          /\ maps_json.items[i].data = MusicIs(MusicPlain)
          /\ maps_json.items[i].zone \in DOMAIN zone_music_map
          /\ zone_music_map[maps_json.items[i].zone] = MusicPlain

\* the commands a lane was given by the last call
Range(cmds) == {cmds[i] : i \in DOMAIN cmds}

\* the idle track of options 2 and 3
IdleTrackOf(option) == IF option = 2 THEN IdleDaniel ELSE IdleTrack2

\* the files the lookup of an idle track may come up with
FoundFiles(name) == {p \in get_full_path(name) : path_exists(p)}

\* the idle lane loops one of the files found for the option's track, at
\* muffled volume
IdleLanePlays(channel, cmds, option) ==
    /\ channel.sound \in FoundFiles(IdleTrackOf(option))
    /\ channel.volume = muffled_volume
    /\ cmds = <<"stop", "play", "set_volume">>

\* C12 as stated: trigger_idle_audio with variant 2 or 3 leaves the base lane
\* as it is (what it plays, its volume, current_volume), and if the idle asset
\* exists the idle lane plays it looping at muffled_volume.
C12_IdleTrackIfAssetExists ==
    [][(op' = "trigger_idle_audio" /\ idle_option' \in {2, 3}) =>
          /\ music_channel' = music_channel
          /\ current_volume' = current_volume
          /\ music_cmds' = <<>>
          /\ AssetFound(IdleTrackOf(idle_option')) =>
                IdleLanePlays(idle_channel', idle_cmds', idle_option')]_vars

\* C12 as amended: ... and if the idle asset exists and the mixer can decode
\* it, the idle lane plays it looping at muffled_volume.
C12_IdleTrackIfAssetLoads ==
    [][(op' = "trigger_idle_audio" /\ idle_option' \in {2, 3}) =>
          /\ music_channel' = music_channel
          /\ current_volume' = current_volume
          /\ music_cmds' = <<>>
          /\ is_idle_version'
          /\ (/\ AssetFound(IdleTrackOf(idle_option'))
              /\ \A p \in FoundFiles(IdleTrackOf(idle_option')) : ~SoundRaises(p)) =>
                IdleLanePlays(idle_channel', idle_cmds', idle_option')]_vars

\* C12 happens: variant 2 started idleDaniel on the idle lane over a playing
\* base lane at normal volume
C12_Witness ==
    /\ op = "trigger_idle_audio" /\ idle_option = 2
    /\ IdleLanePlays(idle_channel, idle_cmds, 2)
    /\ music_channel.sound # None /\ music_channel.volume = normal_volume
    /\ music_cmds = <<>>
    /\ is_idle_version

\* C14: trigger_idle_audio with variant 2 or 3, when the idle asset cannot be
\* found, raises nothing and leaves the idle lane playing nothing, a previous
\* idle sample included.
C14_MissingIdleAssetIsSilent ==
    (/\ op = "trigger_idle_audio" /\ idle_option \in {2, 3}
     /\ ~AssetFound(IdleTrackOf(idle_option)))
        => (~raised /\ idle_channel.sound = None /\ "play" \notin Range(idle_cmds))

\* C14 happens: idle_track_2 is missing and the idle sample played before it
\* (idleDaniel) was stopped
C14_Witness ==
    /\ op = "trigger_idle_audio" /\ idle_option = 3
    /\ ~AssetFound(IdleTrack2)
    /\ idle_sound # None
    /\ idle_channel.sound = None
    /\ idle_cmds = <<"stop">>

\* C15: whenever is_idle_version is False the idle lane is not playing.
C15_IdleLaneSilentUnlessIdle ==
    (op # "none" /\ ~is_idle_version) => idle_channel.sound = None

\* C16: whenever the base lane is playing, the volume set on it equals
\* current_volume.
C16_BaseLaneVolumeIsCurrentVolume ==
    (op # "none" /\ music_channel.sound # None) => music_channel.volume = current_volume

\* C17: is_idle_version = False implies current_volume = normal_volume, and
\* current_volume always lies between muffled_volume and normal_volume.
C17_VolumeBookkeeping ==
    op # "none" =>
        /\ ~is_idle_version => current_volume = normal_volume
        /\ FCmp(muffled_volume, current_volume) <= 0
        /\ FCmp(current_volume, normal_volume) <= 0

\* C17 happens: a zone switch made while muffled has put the bookkeeping back to
\* active at normal volume
C17_Witness ==
    /\ op = "set_zone_music" /\ after_muffle
    /\ "play" \in Range(music_cmds)
    /\ ~is_idle_version
    /\ current_volume = normal_volume

\* x lies between a and b, the ends included
Between(a, x, b) ==
    \/ FCmp(a, x) <= 0 /\ FCmp(x, b) <= 0
    \/ FCmp(b, x) <= 0 /\ FCmp(x, a) <= 0

\* a round of fade_to adds volume_step to current_volume, sets the base lane to
\* the sum, and the sum lies in [0,1] and between the value before and the target
RampRound ==
    /\ fade'.round = fade.round + 1
    /\ current_volume' = FAdd(current_volume, fade.volume_step)
    /\ music_channel'.volume = current_volume'
    /\ Between(F0, current_volume', F1)
    /\ Between(current_volume, current_volume', fade.target_volume)

\* every round of every fade is such a round
FadeRamps == [][(fade # NoFade /\ fade.round < Steps) => RampRound]_vars

\* C13: fade_to(target) moves current_volume to target in exactly 10 equal
\* increments, each applied to the base lane; every value on the way lies in
\* [0,1] and between the start and the target, and when fade_to returns
\* current_volume and the base lane's volume equal target.
C13_FadeReachesTarget ==
    [][fade # NoFade =>
          IF fade.round < Steps
          THEN RampRound
          ELSE /\ fade.round = Steps
               /\ current_volume = fade.target_volume
               /\ music_channel.volume = fade.target_volume]_vars

\* what the caller of fade_to does once it has returned
Completes ==
    /\ fade' = NoFade
    /\ IF fade.caller = "trigger_idle_audio"
       THEN is_idle_version'
       ELSE ~is_idle_version' /\ current_volume' = normal_volume

\* C18: a fade always runs to completion: once fade_to has started it returns
\* after its 10 rounds, no other call on the controller happens in between, and
\* the operation that called it then completes its transition.
C18_FadeRunsToCompletion ==
    /\ [][fade # NoFade =>
             /\ <<op, zone_name, idle_option, base, main_sound, idle_sound, idle_channel>>' =
                <<op, zone_name, idle_option, base, main_sound, idle_sound, idle_channel>>
             /\ music_channel'.sound = music_channel.sound
             /\ fade'.round = IF fade.round < Steps THEN fade.round + 1 ELSE 0
             /\ fade.round = Steps => Completes]_vars
    /\ (fade # NoFade) ~> (fade = NoFade)

\* C18 happens: trigger_idle_audio(1) has returned after the 10 rounds of its
\* fade, the controller idle
C18_Witness ==
    /\ fade = NoFade
    /\ op = "trigger_idle_audio" /\ idle_option = 1
    /\ music_cmds = [i \in 1..Steps |-> "set_volume"]
    /\ is_idle_version
    /\ music_channel.sound # None

=============================================================================
